---- MODULE Spec2Model ----
(***************************************************************************)
(* Slot manager backend: the delivery loop of send_slots, the emoji        *)
(* resolvers and their caches, the emoji reference grammar and the         *)
(* animated re-encoding path, modelled from backend/main.py and            *)
(* backend/utils.py.                                                       *)
(***************************************************************************)
EXTENDS Integers, Sequences, FiniteSets, TLC

VARIABLES
    \* ---- delivery (send_slots, list_slots) --------------------------------
    db,        \* committed rows of table slots, in insertion (id) order
    sess,      \* rows as held by the ORM session of the running invocation
    remote,    \* messages that exist at the messaging endpoint
    pc,        \* position of the send_slots handler
    channel,   \* body.channel_id of the running invocation
    idx,       \* position of the loop in the ordered slot list
    log,       \* requests issued by the running (or last) invocation
    resp,      \* response to the request in flight
    result,    \* what the last invocation returned to its caller
    runs,      \* invocations started so far
    prevOk,    \* channel of the previous invocation if all its responses succeeded
    req,       \* the last request answered by send_slots' preconditions or by
               \* generate_single: its inputs and the response
    \* ---- emoji resolvers and composers ------------------------------------
    EMOJI_IMG_CACHE, \* EMOJI_IMG_CACHE of main.py: key (url, target_px) -> height
    EMOJI_CACHE, \* _EMOJI_CACHE of utils.py: key url -> height
    calls,     \* compositions performed so far, each with its emoji resolution
    \* ---- emoji reference grammar ------------------------------------------
    stored,    \* the emoji column of one slot row
    saved,     \* how the row was last saved and from which raw reference
    shown,     \* the URL the last resolver derived from the stored reference
    \* ---- animated path ----------------------------------------------------
    gifIn,     \* frame durations declared by the source animation (ms, 0 = none)
    gifOut,    \* frame durations declared by the re-encoded output
    \* ---- layout of one frame ----------------------------------------------
    placed,    \* the last composition: its measures and where each element went
    \* ---- font resolution --------------------------------------------------
    font,      \* the last resolution: the request, what loads, what was tried
    \* ---- overlapping send_slots invocations -------------------------------
    cpc,       \* position of each invocation
    csess,     \* rows as held by the ORM session of each invocation
    cidx,      \* position of each invocation's loop
    cresp      \* the response each invocation is handling

delivVars == <<db, sess, remote, pc, channel, idx, log, resp, result, runs, prevOk, req>>
emojiVars == <<EMOJI_IMG_CACHE, EMOJI_CACHE, calls>>
gramVars  == <<stored, saved, shown>>
gifVars   == <<gifIn, gifOut>>
drawVars  == <<placed, font>>
concVars  == <<cpc, csess, cidx, cresp>>
vars == <<delivVars, emojiVars, gramVars, gifVars, drawVars, concVars>>
notDeliv == <<emojiVars, gramVars, gifVars, drawVars, concVars>>
notEmoji == <<delivVars, gramVars, gifVars, drawVars, concVars>>
notGram == <<delivVars, emojiVars, gifVars, drawVars, concVars>>
notGif == <<delivVars, emojiVars, gramVars, drawVars, concVars>>
notDraw == <<delivVars, emojiVars, gramVars, gifVars, concVars>>

----------------------------------------------------------------------------
(* Bounds of the model *)

\* list_slots creates slot_number 2..25; the model creates FirstSlot..LastSlot
FirstSlot == 2
LastSlot == 3
\* invocations of send_slots in one behaviour
MaxRuns == 2

Channels == {"chA", "chB"}
NoChan == "none"
NoMsg == 0

----------------------------------------------------------------------------
(* Delivery: rows, ordering, the create-or-edit decision *)

\* models.py:21-40  a new row: empty text columns, no delivery reference.
\* text stands for the columns a client edits (teamname, teamtag, font_*, ...)
NewSlot(n) == [num |-> n, text |-> "", msg |-> NoMsg, chan |-> NoChan]

RECURSIVE RangeRows(_, _)
RangeRows(lo, hi) ==
    IF lo > hi THEN <<>> ELSE <<NewSlot(lo)>> \o RangeRows(lo + 1, hi)

RECURSIVE InsertByNum(_, _, _)
InsertByNum(rows, i, s) ==
    IF s = <<>> THEN <<i>>
    ELSE IF rows[i].num < rows[Head(s)].num THEN <<i>> \o s
    ELSE <<Head(s)>> \o InsertByNum(rows, i, Tail(s))

RECURSIVE OrderFrom(_, _)
OrderFrom(rows, k) ==
    IF k = 0 THEN <<>> ELSE InsertByNum(rows, k, OrderFrom(rows, k - 1))

\* main.py:587-592  indexes of the guild's rows, ORDER BY slot_number
SlotOrder == OrderFrom(sess, Len(sess))

\* main.py:638  s.discord_message_id and s.discord_channel_id == channel_id
UseEditNoChannelCheck(s, c) == s.msg # NoMsg
UseEditNever(s, c) == FALSE
UseEdit(s, c) == s.msg # NoMsg /\ s.chan = c

\* the id the endpoint gives to the next created message
FreshId == Cardinality(remote) + 1

\* main.py:644-645  store the returned id and the channel on the slot object
StoreCreated(rows, i, id, c) ==
    [rows EXCEPT ![i] = [@ EXCEPT !.msg = id, !.chan = c]]

\* main.py:646-647  db.add(s); db.commit(): the dirty row reaches the table
CommitSkipped(committed, session, i) == committed
Commit(committed, session, i) ==
    [committed EXCEPT ![i] = [@ EXCEPT !.msg = session[i].msg, !.chan = session[i].chan]]

Last(s) == s[Len(s)]
SetLast(s, e) == [s EXCEPT ![Len(s)] = e]

\* main.py:369-386  list_slots: a guild with no rows gets FirstSlot..LastSlot
list_slots ==
    /\ db = <<>>
    /\ db' = RangeRows(FirstSlot, LastSlot)
    /\ UNCHANGED <<sess, remote, pc, channel, idx, log, resp, result, runs, prevOk, req>>
    /\ UNCHANGED notDeliv

AllOk(l) == \A k \in 1..Len(l) : l[k].status = "ok"

\* no request answered yet
NoSize == <<0, 0>>
NoReq == [op |-> "none", token |-> FALSE, gif |-> "", bg |-> FALSE, found |-> FALSE,
          status |-> 0, payload |-> "none", size |-> NoSize,
          teamname |-> <<>>, teamtag |-> <<>>, label |-> <<>>]

\* main.py:577-594  what the preconditions of send_slots answer, in the
\* order the code tests them: credential, background file, slots of the guild
PreconditionStatusNoCredentialTest(token, bg, found) ==
    IF ~bg THEN 404 ELSE IF ~found THEN 404 ELSE 200
PreconditionStatus(token, bg, found) ==
    IF ~token THEN 500 ELSE IF ~bg THEN 404 ELSE IF ~found THEN 404 ELSE 200

\* main.py:577-594  a request that fails one of the three preconditions
SendRejected ==
    /\ pc = "idle"
    /\ \E token \in BOOLEAN, bg \in BOOLEAN :
         /\ (~token \/ ~bg \/ db = <<>>)
         /\ result' = IF ~token THEN "err500" ELSE "err404"
         /\ req' = [NoReq EXCEPT !.op = "send_slots", !.token = token, !.bg = bg,
                                 !.found = (db # <<>>),
                                 !.status = PreconditionStatus(token, bg, db # <<>>),
                                 !.payload = "error"]
    /\ UNCHANGED <<db, sess, remote, pc, channel, idx, log, resp, runs, prevOk>>
    /\ UNCHANGED notDeliv

\* main.py:580-596  the invocation passes its preconditions and loads the slots
SendStart(c) ==
    /\ pc = "idle"
    /\ runs < MaxRuns
    /\ db # <<>>
    /\ pc' = "issue"
    /\ channel' = c
    /\ idx' = 1
    /\ log' = <<>>
    /\ resp' = "none"
    /\ result' = "running"
    /\ runs' = runs + 1
    /\ prevOk' = IF log # <<>> /\ Len(log) = Len(db) /\ AllOk(log)
                 THEN channel ELSE NoChan
    /\ sess' = db
    /\ req' = [NoReq EXCEPT !.op = "send_slots", !.token = TRUE, !.bg = TRUE,
                            !.found = TRUE, !.payload = "accepted"]
    /\ UNCHANGED <<db, remote>>
    /\ UNCHANGED notDeliv

\* main.py:637-641  send new or edit, for the slot the loop is at
IssueRequest ==
    /\ pc = "issue"
    /\ idx <= Len(SlotOrder)
    /\ LET s == sess[SlotOrder[idx]]
           edit == UseEdit(s, channel)
       IN log' = Append(log, [num     |-> s.num,
                              kind    |-> IF edit THEN "PATCH" ELSE "POST",
                              target  |-> IF edit THEN s.msg ELSE NoMsg,
                              hadMsg  |-> s.msg,
                              hadChan |-> s.chan,
                              status  |-> "pending",
                              id      |-> NoMsg,
                              wait    |-> "none"])
    /\ pc' = "await"
    /\ UNCHANGED <<db, sess, remote, channel, idx, resp, result, runs, prevOk, req>>
    /\ UNCHANGED notDeliv

\* the endpoint answers: success, rate-limit rejection (429), other failure
Respond(st) ==
    /\ pc = "await"
    /\ LET e == Last(log)
           created == st = "ok" /\ e.kind = "POST"
       IN /\ remote' = IF created
                       THEN remote \cup {[id |-> FreshId, chan |-> channel, num |-> e.num]}
                       ELSE remote
          /\ log' = SetLast(log, [e EXCEPT !.status = st,
                                           !.id = IF created THEN FreshId ELSE NoMsg])
    /\ resp' = st
    /\ pc' = "handle"
    /\ UNCHANGED <<db, sess, channel, idx, result, runs, prevOk, req>>
    /\ UNCHANGED notDeliv

\* httpx raises (timeout, connection error): the handler is aborted
RequestRaises ==
    /\ pc = "await"
    /\ log' = SetLast(log, [Last(log) EXCEPT !.status = "raised"])
    /\ pc' = "idle"
    /\ result' = "raised"
    /\ sess' = <<>>
    /\ UNCHANGED <<db, remote, channel, idx, resp, runs, prevOk, req>>
    /\ UNCHANGED notDeliv

\* main.py:649-654  after a 429: sleep retry_after + 0.3 and continue;
\* otherwise the 0.4 s pacing sleep; either way the loop moves on
NextIndexRetrySame(i, st) == IF st = "r429" THEN i ELSE i + 1
NextIndex(i, st) == i + 1

\* main.py:642-654  what the handler does with the response
HandleResponse ==
    /\ pc = "handle"
    /\ LET e == Last(log)
           i == SlotOrder[idx]
           created == e.kind = "POST" /\ resp = "ok"
       IN /\ sess' = IF created THEN StoreCreated(sess, i, e.id, channel) ELSE sess
          /\ db' = IF created THEN Commit(db, sess', i) ELSE db
          /\ log' = SetLast(log, [e EXCEPT !.wait =
                                     IF resp = "r429" THEN "retry_after" ELSE "pacing"])
    /\ idx' = NextIndex(idx, resp)
    /\ pc' = "issue"
    /\ UNCHANGED <<remote, channel, resp, result, runs, prevOk, req>>
    /\ UNCHANGED notDeliv

\* main.py:656  return {"status": "sent"}
SendFinish ==
    /\ pc = "issue"
    /\ idx > Len(SlotOrder)
    /\ pc' = "idle"
    /\ result' = "sent"
    /\ sess' = <<>>
    /\ UNCHANGED <<db, remote, channel, idx, log, resp, runs, prevOk, req>>
    /\ UNCHANGED notDeliv

DelivInit ==
    /\ db = <<>>
    /\ sess = <<>>
    /\ remote = {}
    /\ pc = "idle"
    /\ channel = NoChan
    /\ idx = 0
    /\ log = <<>>
    /\ resp = "none"
    /\ result = "none"
    /\ runs = 0
    /\ prevOk = NoChan
    /\ req = NoReq

----------------------------------------------------------------------------
(* Strings are sequences of characters; Python's None is Null *)

Null == <<"None">>
Falsy(v) == v = Null \/ v = <<>>

StartsWith(s, p) == Len(s) >= Len(p) /\ SubSeq(s, 1, Len(p)) = p
EndsWith(s, p) == Len(s) >= Len(p) /\ SubSeq(s, Len(s) - Len(p) + 1, Len(s)) = p
Contains(s, ch) == \E k \in 1..Len(s) : s[k] = ch

\* str.strip(chars): drop leading and trailing characters of the set
RECURSIVE LStrip(_, _)
LStrip(s, cs) == IF s # <<>> /\ Head(s) \in cs THEN LStrip(Tail(s), cs) ELSE s
RECURSIVE RStrip(_, _)
RStrip(s, cs) ==
    IF s # <<>> /\ s[Len(s)] \in cs THEN RStrip(SubSeq(s, 1, Len(s) - 1), cs) ELSE s
Strip(s, cs) == RStrip(LStrip(s, cs), cs)

\* str.split(sep): the pieces between separators, empty pieces kept
RECURSIVE Split(_, _)
Split(s, sep) ==
    IF ~Contains(s, sep) THEN <<s>>
    ELSE LET k == CHOOSE i \in 1..Len(s) :
                      s[i] = sep /\ \A j \in 1..(i - 1) : s[j] # sep
         IN <<SubSeq(s, 1, k - 1)>> \o Split(SubSeq(s, k + 1, Len(s)), sep)

Http == <<"h", "t", "t", "p">>
Whitespace == {" "}
Brackets == {"<", ">"}

\* main.py:453, utils.py:36  f"https://cdn.discordapp.com/emojis/{eid}.{ext}?quality=lossless"
CdnPrefix == <<"h", "t", "t", "p", "s", ":", "/", "/", "c", "d", "n", ".", "d", "i", "s", "c", "o", "r", "d", "a", "p", "p", ".", "c", "o", "m", "/", "e", "m", "o", "j", "i", "s", "/">>
CdnSuffix == <<"?", "q", "u", "a", "l", "i", "t", "y", "=", "l", "o", "s", "s", "l", "e", "s", "s">>
Gif == <<"g", "i", "f">>
Png == <<"p", "n", "g">>
CdnUrl(eid, ext) == CdnPrefix \o eid \o <<".">> \o ext \o CdnSuffix

\* main.py:448-453, utils.py:31-36  the URL built from the pieces of a token
TokenUrl(val) ==
    LET parts == Split(Strip(val, Brackets), ":")
    IN CdnUrl(parts[Len(parts)], IF parts[1] = <<"a">> THEN Gif ELSE Png)

\* main.py:441-454  to_emoji_value of bulk_update_slots
to_emoji_value(raw) ==
    IF Falsy(raw) THEN raw
    ELSE LET val == Strip(raw, Whitespace)
         IN IF StartsWith(val, Http) THEN val
            ELSE IF /\ StartsWith(val, <<"<">>)
                    /\ EndsWith(val, <<">">>)
                    /\ Contains(val, ":")
                    /\ Len(Split(Strip(val, Brackets), ":")) >= 2
                 THEN TokenUrl(val)
                 ELSE val

\* utils.py:24-41  the URL fetch_emoji_bitmap fetches, Null when it returns None
\* before any fetch
UtilUrl(v) ==
    IF Falsy(v) THEN Null
    ELSE IF StartsWith(v, Http) THEN v
    ELSE IF StartsWith(v, <<"<">>) /\ EndsWith(v, <<">">>)
         THEN IF Len(Split(Strip(v, Brackets), ":")) >= 2 THEN TokenUrl(v) ELSE Null
    ELSE Null

\* main.py:208-211, 76-77  the URL _compose_slot_frame hands to
\* _fetch_emoji_image, Null when it fetches nothing
MainUrl(v) ==
    IF Falsy(v) THEN Null
    ELSE IF StartsWith(v, Http) THEN v
    ELSE Null

\* the raw emoji references a client may send
RawRefs ==
    { Null,
      <<>>,
      <<" ">>,
      <<"<", "a", ":", "f", ":", "1", ">">>,
      <<"<", ":", "f", ":", "1", ">">>,
      <<"<", "a", ":", "g", ":", "2", ">">>,
      <<"<", ":", "g", ":", "2", ">">>,
      <<"h", "t", "t", "p", "s", ":", "/", "/", "e">>,
      <<"h", "t", "t", "p", ":", "/", "/", "e">>,
      <<"*">>,
      <<"o", "k">>,
      <<"<", "x", ":", "y", ">">>,
      <<"<", "x", ">">>,
      <<" ", "<", ":", "f", ":", "1", ">", " ">>,
      <<"<", "<", ":", "f", ":", "1", ">", ">">>,
      <<"a", ":", "f", ":", "1">>,
      <<"<", ":", "f", ":", "1">>,
      <<"<", "a", ":", "f", ":", "1", ":", "2", ">">>,
      <<"<", ":", ">">>,
      <<"<", "a", ":", ">">>,
      <<":", "f", ":">> }

\* main.py:479, 494  bulk_update_slots: s.emoji = to_emoji_value(item.get("emoji"))
bulk_update_slots(raw) ==
    /\ stored' = to_emoji_value(raw)
    /\ saved' = [path |-> "bulk_update_slots", raw |-> raw]
    /\ shown' = [by |-> "nobody", url |-> Null]
    /\ UNCHANGED notGram

\* main.py:412-414  update_slot: setattr(s, "emoji", data["emoji"]) unless None
update_slot(raw) ==
    /\ raw # Null
    /\ stored' = raw
    /\ saved' = [path |-> "update_slot", raw |-> raw]
    /\ shown' = [by |-> "nobody", url |-> Null]
    /\ UNCHANGED notGram

\* main.py:208-220  _compose_slot_frame reads the stored reference
ResolveCompose ==
    /\ saved.path # "none"
    /\ shown' = [by |-> "_compose_slot_frame", url |-> MainUrl(stored)]
    /\ UNCHANGED <<stored, saved>>
    /\ UNCHANGED notGram

\* utils.py:19-41  fetch_emoji_bitmap reads the stored reference
ResolveBitmap ==
    /\ saved.path # "none"
    /\ shown' = [by |-> "fetch_emoji_bitmap", url |-> UtilUrl(stored)]
    /\ UNCHANGED <<stored, saved>>
    /\ UNCHANGED notGram

GramNext ==
    \/ \E raw \in RawRefs : bulk_update_slots(raw)
    \/ \E raw \in RawRefs : update_slot(raw)
    \/ ResolveCompose
    \/ ResolveBitmap

----------------------------------------------------------------------------
(* Emoji resolvers, their caches, and the emoji element of the composers *)

\* compositions in one behaviour
MaxCalls == 3

\* references composed in the model: none, a URL, a unicode glyph, a token
EmojiRefs == {<<>>, <<"h", "t", "t", "p", "s", ":", "/", "/", "e">>, <<"*">>, <<"<", ":", "f", ":", "1", ">">>}
\* font sizes (the target height of the emoji)
Sizes == {15, 16}
\* pixel height of the image the URL serves
SrcHeights == {11}
\* how a fetch can end; the three failures are caught by the same except
FetchOutcomes == {"ok", "http_error", "timeout", "undecodable"}

Max(a, b) == IF a >= b THEN a ELSE b

\* main.py:86-88  ratio = target_px / max(1, img.height);
\* new_h = max(1, int(img.height * ratio)). The product is a double: for these
\* (height, target_px) of the model's domain it is below target_px and int()
\* truncates it to target_px - 1 (11 * (15 / 11) = 14.999999999999998)
RoundsBelow == {<<11, 15>>}
MainScaledHeight(h0, t) ==
    Max(1, IF <<h0, t>> \in RoundsBelow THEN t - 1 ELSE t)

\* utils.py:50-51  img.resize((int(img.width * ratio), target_height))
UtilScaledHeight(h0, t) == t

\* main.py:78-80  key = f"{url}@{target_px}"; if key in EMOJI_IMG_CACHE
MainCacheHitNever(cache, url, size) == FALSE
MainCacheHit(cache, url, size) ==
    \E c \in cache : c.url = url /\ c.size = size
MainCached(cache, url, size) ==
    (CHOOSE c \in cache : c.url = url /\ c.size = size).h

\* main.py:90  EMOJI_IMG_CACHE[key] = img
MainCachePutNothing(cache, url, size, h) == cache
MainCachePut(cache, url, size, h) ==
    cache \cup {[url |-> url, size |-> size, h |-> h]}

\* utils.py:43-44  if url in _EMOJI_CACHE
UtilCacheHit(cache, url) == \E c \in cache : c.url = url
UtilCached(cache, url) == (CHOOSE c \in cache : c.url = url).h

\* utils.py:52  _EMOJI_CACHE[url] = img
UtilCachePut(cache, url, h) == cache \cup {[url |-> url, h |-> h]}

\* what a composition leaves in the log
Call(by, ref, size, url, fetched, net, h, kind) ==
    [by |-> by, ref |-> ref, size |-> size, url |-> url, fetched |-> fetched,
     net |-> net, slot |-> TRUE, team |-> TRUE,
     emoji |-> [kind |-> kind, h |-> h]]

\* main.py:157-222 with 74-93  _compose_slot_frame: slot number and team label
\* are drawn, then the emoji: a URL is fetched (or taken from the cache) and
\* pasted when it resolves, any other non-empty reference is drawn as text
compose_slot_frame(ref, size) ==
    /\ Len(calls) < MaxCalls
    /\ LET url == MainUrl(ref) IN
       IF url = Null
       THEN /\ calls' = Append(calls, Call("main", ref, size, url, FALSE, "none", 0,
                                           IF Falsy(ref) THEN "none" ELSE "text"))
            /\ UNCHANGED EMOJI_IMG_CACHE
       ELSE IF MainCacheHit(EMOJI_IMG_CACHE, url, size)
       THEN /\ calls' = Append(calls, Call("main", ref, size, url, FALSE, "none",
                                           MainCached(EMOJI_IMG_CACHE, url, size), "bitmap"))
            /\ UNCHANGED EMOJI_IMG_CACHE
       ELSE \E o \in FetchOutcomes, h0 \in SrcHeights :
              IF o = "ok"
              THEN LET h == MainScaledHeight(h0, size) IN
                   /\ EMOJI_IMG_CACHE' = MainCachePut(EMOJI_IMG_CACHE, url, size, h)
                   /\ calls' = Append(calls, Call("main", ref, size, url, TRUE, "ok",
                                                  h, "bitmap"))
              ELSE /\ calls' = Append(calls, Call("main", ref, size, url, TRUE, "fail",
                                                  0, "none"))
                   /\ UNCHANGED EMOJI_IMG_CACHE
    /\ UNCHANGED EMOJI_CACHE
    /\ UNCHANGED notEmoji

\* utils.py:58-109 with 19-56  draw_slot_on_image: slot number and team label
\* are drawn, then the emoji: the bitmap when fetch_emoji_bitmap returns one,
\* else the reference as text when it is not empty
draw_slot_on_image(ref, size) ==
    /\ Len(calls) < MaxCalls
    /\ LET url == UtilUrl(ref)
           fallback == IF Falsy(ref) THEN "none" ELSE "text" IN
       IF url = Null
       THEN /\ calls' = Append(calls, Call("utils", ref, size, url, FALSE, "none", 0,
                                           fallback))
            /\ UNCHANGED EMOJI_CACHE
       ELSE IF UtilCacheHit(EMOJI_CACHE, url)
       THEN /\ calls' = Append(calls, Call("utils", ref, size, url, FALSE, "none",
                                           UtilCached(EMOJI_CACHE, url), "bitmap"))
            /\ UNCHANGED EMOJI_CACHE
       ELSE \E o \in FetchOutcomes, h0 \in SrcHeights :
              IF o = "ok"
              THEN LET h == UtilScaledHeight(h0, size) IN
                   /\ EMOJI_CACHE' = UtilCachePut(EMOJI_CACHE, url, h)
                   /\ calls' = Append(calls, Call("utils", ref, size, url, TRUE, "ok",
                                                  h, "bitmap"))
              ELSE /\ calls' = Append(calls, Call("utils", ref, size, url, TRUE, "fail",
                                                  0, fallback))
                   /\ UNCHANGED EMOJI_CACHE
    /\ UNCHANGED EMOJI_IMG_CACHE
    /\ UNCHANGED notEmoji

EmojiNext ==
    \/ \E ref \in EmojiRefs, size \in Sizes : compose_slot_frame(ref, size)
    \/ \E ref \in EmojiRefs, size \in Sizes : draw_slot_on_image(ref, size)

----------------------------------------------------------------------------
(* Animated path: frame timing from the source to the re-encoded output *)

\* frames of a source animation in the model
MaxFrames == 3
\* main.py:98  meta.get("duration", 80) or 80
DefaultDuration == 80
\* durations a source frame may declare, in ms; 0: the frame declares none
Durations == {0, 100, 200, 2010}

\* nothing generated yet
NoOutput == [durations |-> <<>>, loop |-> "none"]

RECURSIVE SeqsUpTo(_, _)
SeqsUpTo(S, n) ==
    IF n = 0 THEN {<<>>}
    ELSE LET shorter == SeqsUpTo(S, n - 1)
         IN shorter \cup {Append(q, x) : q \in shorter, x \in S}

Sources == SeqsUpTo(Durations, MaxFrames) \ {<<>>}

\* main.py:97-98  reader.get_meta_data(): the metadata of the file, i.e. the
\* duration its first frame declares, defaulted when absent or zero
iter_gif_frames_duration(src, i) == IF src[1] = 0 THEN DefaultDuration ELSE src[1]

\* main.py:98, 556  int((ms / 1000.0) * 1000): the double product is below ms
\* for these values of the model's domain (2010 / 1000.0 * 1000 =
\* 2009.9999999999998), and int() truncates
MillisRoundBelow == {2010}
ToMillis(ms) == IF ms \in MillisRoundBelow THEN ms - 1 ELSE ms

\* main.py:551-560  save(format="GIF", duration=[...], loop=0): the container
\* holds each delay in hundredths of a second
Declared(ms) == (ms \div 10) * 10

\* main.py:95-100, 539-560  every decoded frame gets the duration of the
\* metadata; the output has one frame per source frame and loops forever
Reencode(src) ==
    [durations |-> [i \in 1..Len(src) |-> Declared(ToMillis(iter_gif_frames_duration(src, i)))],
     loop |-> "forever"]

\* main.py:523-526, 537  the background of the request is an animation
OpenSource(src) ==
    /\ gifIn = <<>>
    /\ gifIn' = src
    /\ UNCHANGED gifOut
    /\ UNCHANGED notGif

\* main.py:539-562  generate_single on an animated background
generate_single ==
    /\ gifIn # <<>>
    /\ gifOut = NoOutput
    /\ gifOut' = Reencode(gifIn)
    /\ UNCHANGED gifIn
    /\ UNCHANGED notGif

GifNext ==
    \/ \E src \in Sources : OpenSource(src)
    \/ generate_single

----------------------------------------------------------------------------
(* Slot records: update_slot and bulk_update_slots as writers of rows *)

\* rows a bulk payload may hold
MaxItems == 2
\* rows of one guild in the model
MaxRows == 3

\* the slot number the requests of the model name
SlotNumbers == {FirstSlot}
Texts == {"A"}

Min(S) == CHOOSE x \in S : \A y \in S : x <= y

\* main.py:408, 471  filter(guild_id, slot_number).first() over committed rows
Matching(rows, n) == {k \in 1..Len(rows) : rows[k].num = n}

\* main.py:412-414, 492-500  the columns the two handlers assign: the text
\* columns, never discord_message_id or discord_channel_id
EditedAsNew(row, t) == [NewSlot(row.num) EXCEPT !.text = t]
Edited(row, t) == [row EXCEPT !.text = t]

\* main.py:408-415  update_slot: the row of (guild, slot_number) is created
\* when the query finds none; only the text columns are set; commit
UpdateSlotRow(n, t) ==
    /\ db' = IF Matching(db, n) = {}
             THEN Append(db, Edited(NewSlot(n), t))
             ELSE [db EXCEPT ![Min(Matching(db, n))] = Edited(@, t)]
    /\ Len(db') <= MaxRows
    /\ UNCHANGED <<sess, remote, pc, channel, idx, log, resp, result, runs, prevOk, req>>
    /\ UNCHANGED notDeliv

\* models.py:15, main.py:459-502  the loop of bulk_update_slots. The session
\* has autoflush=False, so each query sees the rows committed before the
\* handler started (the first base rows) and none of the rows added by
\* earlier items of the same payload
RECURSIVE BulkApply(_, _, _)
BulkApply(rows, base, items) ==
    IF items = <<>> THEN rows
    ELSE LET it == Head(items)
             m == {k \in 1..base : rows[k].num = it.num}
         IN IF m = {}
            THEN BulkApply(Append(rows, Edited(NewSlot(it.num), it.text)),
                           base, Tail(items))
            ELSE BulkApply([rows EXCEPT ![Min(m)] = Edited(@, it.text)],
                           base, Tail(items))

Items == [num : SlotNumbers, text : Texts]
Payloads == SeqsUpTo(Items, MaxItems) \ {<<>>}

\* main.py:456-505  bulk_update_slots: every item applied, one commit
BulkUpdateRows(payload) ==
    /\ db' = BulkApply(db, Len(db), payload)
    /\ Len(db') <= MaxRows
    /\ UNCHANGED <<sess, remote, pc, channel, idx, log, resp, result, runs, prevOk, req>>
    /\ UNCHANGED notDeliv

----------------------------------------------------------------------------
(* generate_single: preconditions, team label, size of the output *)

\* main.py:46
DEFAULT_GIF_NAME == "default.gif"
\* the pixel size of the background files that may lie in assets/gifs
BgSize(f) == IF f = "default.gif" THEN <<8, 4>> ELSE <<6, 2>>
AssetSets == {{}, {"default.gif"}, {"a.png"}}
\* gif_name of the request; "" when the parameter is absent
GifNames == {"", "a.png"}

FreeSlot == <<"F", "r", "e", "e", "S", "l", "o", "t">>
TeamNames == {Null, <<"A">>}
TeamTags == {<<>>, <<"T">>}

\* main.py:533, 599  team = (s.teamname or "FreeSlot").strip()
team(teamname) == Strip(IF Falsy(teamname) THEN FreeSlot ELSE teamname, Whitespace)
\* main.py:534, 600  tag = (s.teamtag or "").strip()
tag(teamtag) == Strip(IF Falsy(teamtag) THEN <<>> ELSE teamtag, Whitespace)

\* main.py:182-187  the label _compose_slot_frame draws from its arguments
main_text(teamname, teamtag) ==
    IF ~Falsy(teamname) /\ ~Falsy(teamtag) THEN teamname \o <<" ">> \o teamtag
    ELSE IF ~Falsy(teamname) THEN teamname
    ELSE IF ~Falsy(teamtag) THEN teamtag
    ELSE FreeSlot

\* main.py:523-572  generate_single, answered between two send_slots
\* invocations (it writes nothing, so answering it in the middle of one would
\* show the same records). assets is the content of assets/gifs,
\* token whether DISCORD_BOT_TOKEN is set; teamname and teamtag are the
\* columns of the row found. The output has the size of the background
\* (main.py:170 img = base_img.copy())
GenerateSingle(gif_name, assets, token, n, teamname, teamtag) ==
    /\ pc = "idle"
    /\ LET gif_file == IF gif_name = "" THEN DEFAULT_GIF_NAME ELSE gif_name
           bg == gif_file \in assets
           found == Matching(db, n) # {}
           sent == [NoReq EXCEPT !.op = "generate_single", !.token = token,
                                 !.gif = gif_name, !.bg = bg, !.found = found]
       IN req' = IF ~bg THEN [sent EXCEPT !.status = 404, !.payload = "error"]
                 ELSE IF ~found THEN [sent EXCEPT !.status = 404, !.payload = "error"]
                 ELSE [sent EXCEPT !.status = 200, !.payload = "image",
                                   !.size = BgSize(gif_file),
                                   !.teamname = teamname, !.teamtag = teamtag,
                                   !.label = main_text(team(teamname), tag(teamtag))]
    /\ UNCHANGED <<db, sess, remote, pc, channel, idx, log, resp, result, runs, prevOk>>
    /\ UNCHANGED notDeliv

----------------------------------------------------------------------------
(* Layout of one frame: the vertical band and the three elements *)

\* largest padding of the model
MaxPad == 3
\* frame heights, paddings and measured element heights of the model
FrameHeights == {4}
Paddings == 0..MaxPad
ElementHeights == {1, 2, 9}
EmojiKinds == {"none", "bitmap", "text"}

NothingPlaced == [by |-> "nobody"]

\* main.py:179  bottom = max(0, H - int(padding_bottom or 0))
\* utils.py:69  usable_bottom = max(0, h - padding_bottom)
bottom(H, padding_bottom) == Max(0, H - padding_bottom)
\* main.py:180  usable_h = max(1, bottom - top);  utils.py:70
usable_h(H, padding_top, padding_bottom) ==
    Max(1, bottom(H, padding_bottom) - padding_top)

\* main.py:195  y_text = top + (usable_h - main_h) // 2
y_text(top, usable, main_h) == top + (usable - main_h) \div 2
\* main.py:214, 219  ey = top + (usable_h - height of the emoji element) // 2
ey(top, usable, eh) == top + (usable - eh) \div 2

\* utils.py:82  y_center = usable_top + (usable_height - main_h) / 2, a float:
\* twice its value is an integer
y_center2(top, usable, main_h) == 2 * top + usable - main_h
\* utils.py:100-101  int(usable_top + (usable_height - emoji_img.height) / 2):
\* int() truncates towards zero
emoji_y(top, usable, eh) ==
    LET twice == 2 * top + usable - eh
    IN IF twice >= 0 THEN twice \div 2 ELSE -((-twice) \div 2)

\* the measures of a composition and twice the y of each element placed
Placement(by, H, top, pb, slot_h, main_h, emoji, eh, ySlot2, yMain2, yEmoji2) ==
    [by |-> by, H |-> H, top |-> top, pb |-> pb,
     slot_h |-> slot_h, main_h |-> main_h, emoji |-> emoji,
     emoji_h |-> IF emoji = "none" THEN 0 ELSE eh,
     ySlot2 |-> ySlot2, yMain2 |-> yMain2,
     yEmoji2 |-> IF emoji = "none" THEN 0 ELSE yEmoji2]

\* main.py:177-220  _compose_slot_frame: slot number and team label are both
\* drawn at y_text; the emoji, bitmap or text, at ey
PlaceCompose(H, top, pb, slot_h, main_h, emoji, eh) ==
    /\ LET usable == usable_h(H, top, pb)
       IN placed' = Placement("main", H, top, pb, slot_h, main_h, emoji, eh,
                              2 * y_text(top, usable, main_h),
                              2 * y_text(top, usable, main_h),
                              2 * ey(top, usable, eh))
    /\ UNCHANGED font
    /\ UNCHANGED notDraw

\* utils.py:68-107  draw_slot_on_image: slot number and team label at
\* y_center, an emoji bitmap at emoji_y, an emoji drawn as text at y_center
PlaceDraw(H, top, pb, slot_h, main_h, emoji, eh) ==
    /\ LET usable == usable_h(H, top, pb)
       IN placed' = Placement("utils", H, top, pb, slot_h, main_h, emoji, eh,
                              y_center2(top, usable, main_h),
                              y_center2(top, usable, main_h),
                              IF emoji = "bitmap" THEN 2 * emoji_y(top, usable, eh)
                              ELSE y_center2(top, usable, main_h))
    /\ UNCHANGED font
    /\ UNCHANGED notDraw

----------------------------------------------------------------------------
(* Font resolution *)

\* the requested family: None or "", a relative name, an absolute path
FamilyKinds == {"empty", "relative", "absolute"}
\* what loads: the file of that name under backend/fonts, the name taken as
\* a path, the file of the default name under backend/fonts, the system
\* fallback font
FontWorlds == [inFonts : BOOLEAN, asPath : BOOLEAN, defaultInFonts : BOOLEAN,
               fallback : BOOLEAN]

\* main.py:175 int(font_size or 64), utils.py:62 meta.get("font_size", 48)
FontSizes == {48, 64}

NothingResolved == [by |-> "nobody"]

\* the first step of a sequence of attempts that loads; the built-in bitmap
\* font always loads
RECURSIVE FirstLoading(_, _)
FirstLoading(steps, loads) ==
    IF steps = <<>> THEN "builtin"
    ELSE IF loads[Head(steps)] THEN Head(steps)
    ELSE FirstLoading(Tail(steps), loads)

Loads(world) ==
    [fonts_dir |-> world.inFonts, path |-> world.asPath,
     fonts_dir_default |-> world.defaultInFonts, fallback |-> world.fallback]

\* main.py:104  os.path.join(BASE_DIR, "fonts", font_family or "DejaVuSans.ttf"):
\* an absolute family replaces the directory, an empty one names the default
\* file. main.py:105-111: that one path, then the system fallback, then
\* load_default()
MainAttempts(family) ==
    <<CASE family = "empty" -> "fonts_dir_default"
        [] family = "relative" -> "fonts_dir"
        [] family = "absolute" -> "path",
      "fallback">>

\* utils.py:11-17  the family as given to truetype (None or "" does not load),
\* then the system fallback, then load_default()
UtilAttempts(family) ==
    IF family = "empty" THEN <<"fallback">> ELSE <<"path", "fallback">>

\* main.py:102-111  _load_font
\* under an absolute family no file of backend/fonts is named
load_font_main(family, size, world) ==
    /\ font' = [by |-> "main", family |-> family, size |-> size, world |-> world,
                tried |-> MainAttempts(family),
                got |-> FirstLoading(MainAttempts(family), Loads(world))]
    /\ UNCHANGED placed
    /\ UNCHANGED notDraw

\* utils.py:10-17  load_font
load_font(family, size, world) ==
    /\ font' = [by |-> "utils", family |-> family, size |-> size, world |-> world,
                tried |-> UtilAttempts(family),
                got |-> FirstLoading(UtilAttempts(family), Loads(world))]
    /\ UNCHANGED placed
    /\ UNCHANGED notDraw

LayoutNext ==
    \/ \E H \in FrameHeights, top \in Paddings, pb \in Paddings,
          slot_h \in ElementHeights, main_h \in ElementHeights,
          emoji \in EmojiKinds, eh \in ElementHeights :
         PlaceCompose(H, top, pb, slot_h, main_h, emoji, eh)
    \/ \E H \in FrameHeights, top \in Paddings, pb \in Paddings,
          slot_h \in ElementHeights, main_h \in ElementHeights,
          emoji \in EmojiKinds, eh \in ElementHeights :
         PlaceDraw(H, top, pb, slot_h, main_h, emoji, eh)

FontNext ==
    \/ \E family \in FamilyKinds, size \in FontSizes, world \in FontWorlds :
         load_font_main(family, size, world)
    \/ \E family \in FamilyKinds, size \in FontSizes, world \in FontWorlds :
         load_font(family, size, world)

----------------------------------------------------------------------------
(* Overlapping send_slots invocations: send_slots is a plain def, which the
   framework runs on a worker thread per request; each invocation has its own
   session (main.py:68-69, models.py:57-62) over the one table *)

Procs == {1, 2}
\* both invocations target this channel
ConcChannel == "chA"
NoResp == [kind |-> "none", status |-> "none", id |-> NoMsg]

ConcOrder(p) == OrderFrom(csess[p], Len(csess[p]))

\* main.py:586-594  read the guild's slot records into the session
ConcRead(p) ==
    /\ cpc[p] = "idle"
    /\ db # <<>>
    /\ csess' = [csess EXCEPT ![p] = db]
    /\ cidx' = [cidx EXCEPT ![p] = 1]
    /\ cpc' = [cpc EXCEPT ![p] = "send"]
    /\ UNCHANGED <<cresp, db, remote>>
    /\ UNCHANGED <<sess, pc, channel, idx, log, resp, result, runs, prevOk, req>>
    /\ UNCHANGED <<emojiVars, gramVars, gifVars, drawVars>>

\* main.py:637-641  send the request for the slot the loop is at, decided on
\* the record as the session holds it; the endpoint answers
ConcSend(p, st) ==
    /\ cpc[p] = "send"
    /\ cidx[p] <= Len(ConcOrder(p))
    /\ LET s == csess[p][ConcOrder(p)[cidx[p]]]
           edit == UseEdit(s, ConcChannel)
           created == ~edit /\ st = "ok"
       IN /\ remote' = IF created
                       THEN remote \cup {[id |-> FreshId, chan |-> ConcChannel, num |-> s.num]}
                       ELSE remote
          /\ cresp' = [cresp EXCEPT ![p] =
                          [kind |-> IF edit THEN "PATCH" ELSE "POST", status |-> st,
                           id |-> IF created THEN FreshId ELSE NoMsg]]
    /\ cpc' = [cpc EXCEPT ![p] = "store"]
    /\ UNCHANGED <<csess, cidx, db>>
    /\ UNCHANGED <<sess, pc, channel, idx, log, resp, result, runs, prevOk, req>>
    /\ UNCHANGED <<emojiVars, gramVars, gifVars, drawVars>>

\* main.py:642-654  store the id of a created message, commit, move on
ConcStore(p) ==
    /\ cpc[p] = "store"
    /\ LET i == ConcOrder(p)[cidx[p]]
           created == cresp[p].kind = "POST" /\ cresp[p].status = "ok"
       IN /\ csess' = IF created
                      THEN [csess EXCEPT ![p] = StoreCreated(@, i, cresp[p].id, ConcChannel)]
                      ELSE csess
          /\ db' = IF created THEN Commit(db, csess'[p], i) ELSE db
    /\ cidx' = [cidx EXCEPT ![p] = NextIndex(@, cresp[p].status)]
    /\ cpc' = [cpc EXCEPT ![p] = "send"]
    /\ UNCHANGED <<cresp, remote>>
    /\ UNCHANGED <<sess, pc, channel, idx, log, resp, result, runs, prevOk, req>>
    /\ UNCHANGED <<emojiVars, gramVars, gifVars, drawVars>>

\* main.py:656  the loop is over
ConcFinish(p) ==
    /\ cpc[p] = "send"
    /\ cidx[p] > Len(ConcOrder(p))
    /\ cpc' = [cpc EXCEPT ![p] = "done"]
    /\ UNCHANGED <<csess, cidx, cresp, db, remote>>
    /\ UNCHANGED <<sess, pc, channel, idx, log, resp, result, runs, prevOk, req>>
    /\ UNCHANGED <<emojiVars, gramVars, gifVars, drawVars>>

ConcNext ==
    \/ list_slots
    \/ \E p \in Procs : ConcRead(p)
    \/ \E p \in Procs, st \in {"ok", "fail"} : ConcSend(p, st)
    \/ \E p \in Procs : ConcStore(p)
    \/ \E p \in Procs : ConcFinish(p)

----------------------------------------------------------------------------
(* Specifications *)

EmojiInit ==
    /\ EMOJI_IMG_CACHE = {}
    /\ EMOJI_CACHE = {}
    /\ calls = <<>>

\* models.py:29  emoji = Column(String, default="")
GramInit ==
    /\ stored = <<>>
    /\ saved = [path |-> "none", raw |-> Null]
    /\ shown = [by |-> "nobody", url |-> Null]

GifInit ==
    /\ gifIn = <<>>
    /\ gifOut = NoOutput

DrawInit ==
    /\ placed = NothingPlaced
    /\ font = NothingResolved

ConcInit ==
    /\ cpc = [p \in Procs |-> "idle"]
    /\ csess = [p \in Procs |-> <<>>]
    /\ cidx = [p \in Procs |-> 0]
    /\ cresp = [p \in Procs |-> NoResp]

Init == DelivInit /\ EmojiInit /\ GramInit /\ GifInit /\ DrawInit /\ ConcInit

Next ==
    \/ list_slots
    \/ SendRejected
    \/ \E c \in Channels : SendStart(c)
    \/ IssueRequest
    \/ \E st \in {"ok", "r429", "fail"} : Respond(st)
    \/ RequestRaises
    \/ HandleResponse
    \/ SendFinish

Spec == Init /\ [][Next]_vars

SpecGrammar == Init /\ [][GramNext]_vars

SpecEmoji == Init /\ [][EmojiNext]_vars

SpecGif == Init /\ [][GifNext]_vars

\* send_slots and generate_single with every input of their preconditions
RequestNext ==
    \/ list_slots
    \/ SendRejected
    \/ \E c \in Channels : SendStart(c)
    \/ IssueRequest
    \/ \E st \in {"ok", "r429", "fail"} : Respond(st)
    \/ RequestRaises
    \/ HandleResponse
    \/ SendFinish
    \/ \E gif_name \in GifNames, assets \in AssetSets, token \in BOOLEAN,
          n \in SlotNumbers, teamname \in TeamNames, teamtag \in TeamTags :
         GenerateSingle(gif_name, assets, token, n, teamname, teamtag)

SpecRequest == Init /\ [][RequestNext]_vars

\* every handler that reads or writes the slot records: the writers of the
\* text columns at any moment, also while send_slots is running;
\* generate_single for one named background and a row without team name
\* and tag
StoreNext ==
    \/ list_slots
    \/ SendRejected
    \/ \E c \in Channels : SendStart(c)
    \/ IssueRequest
    \/ \E st \in {"ok", "r429", "fail"} : Respond(st)
    \/ RequestRaises
    \/ HandleResponse
    \/ SendFinish
    \/ \E n \in SlotNumbers, t \in Texts : UpdateSlotRow(n, t)
    \/ \E payload \in Payloads : BulkUpdateRows(payload)
    \/ \E assets \in {{}, {"a.png"}}, token \in BOOLEAN, n \in SlotNumbers :
         GenerateSingle("a.png", assets, token, n, Null, <<>>)

SpecStore == Init /\ [][StoreNext]_vars

SpecLayout == Init /\ [][LayoutNext]_vars

SpecFont == Init /\ [][FontNext]_vars

SpecConc == Init /\ [][ConcNext]_vars

\* httpx is called with timeout=60.0 (main.py:236, 252): a request in flight
\* is answered or raises; the handler itself runs without waiting on anything
\* else than its own sleeps
SpecLive ==
    /\ Spec
    /\ WF_vars(IssueRequest)
    /\ WF_vars((\E st \in {"ok", "r429", "fail"} : Respond(st)) \/ RequestRaises)
    /\ WF_vars(HandleResponse)
    /\ WF_vars(SendFinish)

----------------------------------------------------------------------------
(* Claims about the delivery loop *)

RowsOf(n) == {k \in 1..Len(db) : db[k].num = n}
MessagesFor(c, n) == {m \in remote : m.chan = c /\ m.num = n}
Handled(e) == e.wait # "none"
FirstAttempt(k) == k = 1 \/ log[k - 1].num # log[k].num

\* C1: a slot whose create or edit is answered 429 has its request re-issued
\* for that same slot, exactly once, after the wait; when that retry succeeds
\* the slot ends with exactly one message in the channel, its id stored.
C1_RetriedOnceAfter429 ==
    \A k \in 1..Len(log) :
        (FirstAttempt(k) /\ log[k].status = "r429" /\ Handled(log[k])
            /\ (Len(log) > k \/ pc = "idle"))
        => /\ Len(log) > k
           /\ log[k + 1].num = log[k].num
           /\ (Len(log) > k + 1 => log[k + 2].num # log[k].num)
           /\ (log[k].kind = "POST" /\ log[k + 1].status = "ok" /\ Handled(log[k + 1])
                 => /\ \E m \in MessagesFor(channel, log[k].num) :
                          \A i \in RowsOf(log[k].num) : db[i].msg = m.id
                    /\ log[k + 1].id # NoMsg)

\* C2: a PATCH of the stored message is issued exactly when the slot holds a
\* message id and its stored channel is the target channel, otherwise a POST;
\* a successful POST stores the returned id and the target channel, anything
\* else leaves the stored reference alone; so a first run whose responses all
\* succeed creates one message per slot, and a run to the same channel after
\* it issues only PATCH requests.
C2_EditIffStoredForChannel ==
    /\ \A k \in 1..Len(log) :
          LET e == log[k] IN
          /\ e.kind \in {"POST", "PATCH"}
          /\ e.kind = "PATCH" <=> (e.hadMsg # NoMsg /\ e.hadChan = channel)
          /\ e.kind = "PATCH" => e.target = e.hadMsg
          /\ Handled(e) =>
                \A i \in RowsOf(e.num) :
                    IF e.kind = "POST" /\ e.status = "ok"
                    THEN e.id # NoMsg /\ db[i].msg = e.id /\ db[i].chan = channel
                    ELSE db[i].msg = e.hadMsg /\ db[i].chan = e.hadChan
    /\ (runs = 1 /\ result = "sent" /\ AllOk(log)) =>
          /\ \A k \in 1..Len(log) : log[k].kind = "POST"
          /\ \A i \in 1..Len(db) :
                Cardinality(MessagesFor(channel, db[i].num)) = 1
    /\ (prevOk # NoChan /\ prevOk = channel) =>
          \A k \in 1..Len(log) : log[k].kind = "PATCH"

\* a second run to the same channel has finished, every response successful
C2_Witness ==
    /\ runs = 2
    /\ result = "sent"
    /\ prevOk = channel
    /\ Len(log) = Len(db)
    /\ Len(log) >= 2
    /\ AllOk(log)

\* C3: an invocation in which some request got a non-success, non-429
\* response does not return {"status": "sent"}, and that request is not
\* issued again.
C3_FailurePropagates ==
    /\ result = "sent" => \A k \in 1..Len(log) : log[k].status # "fail"
    /\ \A k \in 1..Len(log) :
          (log[k].status = "fail" /\ Len(log) > k) => log[k + 1].num # log[k].num

Aborted == result = "raised" \/ \E k \in 1..Len(log) : log[k].status = "fail"

\* C4: when an invocation fails or is aborted at some slot, every message
\* created earlier in it still exists at the endpoint and its id is in the
\* committed row of its slot; the only requests ever issued are POST and PATCH.
C4_PriorSendsIntact ==
    Aborted =>
        \A k \in 1..Len(log) :
            /\ log[k].kind \in {"POST", "PATCH"}
            /\ (log[k].kind = "POST" /\ log[k].status = "ok" /\ Handled(log[k])) =>
                  /\ [id |-> log[k].id, chan |-> channel, num |-> log[k].num] \in remote
                  /\ \A i \in RowsOf(log[k].num) :
                        db[i].msg = log[k].id /\ db[i].chan = channel

\* the request for the second slot raised after the first slot's create succeeded
C4_Witness ==
    /\ result = "raised"
    /\ Len(log) = 2
    /\ log[1].kind = "POST"
    /\ log[1].status = "ok"
    /\ log[2].status = "raised"
    /\ \E i \in 1..Len(db) : db[i].num = log[1].num /\ db[i].msg = log[1].id

----------------------------------------------------------------------------
(* Claims about the emoji grammar *)

TokenParts(r) == Split(SubSeq(r, 2, Len(r) - 1), ":")
Plain(w) == w # <<>> /\ \A k \in 1..Len(w) : w[k] \notin {"<", ">", " "}
\* r has the form <a?:NAME:ID>
IsToken(r) ==
    /\ Len(r) >= 2
    /\ r[1] = "<"
    /\ r[Len(r)] = ">"
    /\ Len(TokenParts(r)) = 3
    /\ TokenParts(r)[1] \in {<<>>, <<"a">>}
    /\ Plain(TokenParts(r)[2])
    /\ Plain(TokenParts(r)[3])
\* r starts with an absolute URL scheme
IsUrl(r) ==
    \/ StartsWith(r, <<"h", "t", "t", "p", ":", "/", "/">>)
    \/ StartsWith(r, <<"h", "t", "t", "p", "s", ":", "/", "/">>)

\* C9: whichever way the reference was saved and whichever resolver reads it,
\* <a:NAME:ID> resolves to the CDN URL of ID with .gif, <:NAME:ID> to the one
\* with .png, a URL passes through unchanged, the empty reference gives no
\* element, and any other text is never turned into a URL.
C9_EmojiGrammar ==
    shown.by # "nobody" =>
        LET r == saved.raw IN
        /\ IsToken(r) =>
              shown.url = CdnUrl(TokenParts(r)[3],
                                 IF TokenParts(r)[1] = <<"a">> THEN Gif ELSE Png)
        /\ IsUrl(r) => (stored = r /\ shown.url = r)
        /\ r = <<>> => shown.url = Null
        /\ (~IsToken(r) /\ ~IsUrl(r)) => shown.url = Null

----------------------------------------------------------------------------
(* Claims about the emoji resolvers and the composers *)

Output(c) == <<c.slot, c.team, c.emoji>>
SameSpec(a, b) == a.by = b.by /\ a.ref = b.ref /\ a.size = b.size
SamePair(a, b) == a.by = b.by /\ a.url # Null /\ a.url = b.url /\ a.size = b.size

\* C6 as stated: two compositions of the same (frame, spec) by
\* _compose_slot_frame give the same output, a URL reference included.
C6_AlwaysIdentical ==
    \A i, j \in 1..Len(calls) :
        (i < j /\ calls[i].by = "main" /\ SameSpec(calls[i], calls[j]))
        => Output(calls[i]) = Output(calls[j])

\* C6 amended: two compositions of the same (frame, spec) by
\* _compose_slot_frame give the same output when the emoji reference is not a
\* URL, or when the first of them drew the bitmap (it is cached from then on).
C6_IdenticalOnceResolved ==
    \A i, j \in 1..Len(calls) :
        (/\ i < j
         /\ calls[i].by = "main"
         /\ SameSpec(calls[i], calls[j])
         /\ (calls[i].url = Null \/ calls[i].emoji.kind = "bitmap"))
        => Output(calls[i]) = Output(calls[j])

\* a URL was composed twice: fetched the first time, cached the second
C6_Witness ==
    \E i, j \in 1..Len(calls) :
        /\ i < j
        /\ calls[i].by = "main"
        /\ SameSpec(calls[i], calls[j])
        /\ calls[i].fetched /\ calls[i].net = "ok"
        /\ ~calls[j].fetched
        /\ calls[j].emoji.kind = "bitmap"

Fetches(i, j) ==
    (IF calls[i].fetched THEN 1 ELSE 0) + (IF calls[j].fetched THEN 1 ELSE 0)

\* C7 as stated: two resolutions of the same (url, targetHeightPx), one right
\* after the other, trigger exactly one fetch whatever the first fetch gave.
C7_OneFetchWhateverOutcome ==
    \A i \in 1..(Len(calls) - 1) :
        (SamePair(calls[i], calls[i + 1]) /\ calls[i].fetched)
        => Fetches(i, i + 1) = 1

\* C7 amended: after a resolution of (url, targetHeightPx) whose fetch
\* succeeded, no later resolution of the same pair fetches (exactly one fetch
\* for the two); after one whose fetch failed, the next resolution of the
\* same pair fetches again (two fetches).
C7_OneFetchAfterSuccess ==
    /\ \A i, j \in 1..Len(calls) :
          (i < j /\ SamePair(calls[i], calls[j])
               /\ calls[i].fetched /\ calls[i].net = "ok")
          => Fetches(i, j) = 1
    /\ \A i \in 1..(Len(calls) - 1) :
          (SamePair(calls[i], calls[i + 1])
               /\ calls[i].fetched /\ calls[i].net = "fail")
          => Fetches(i, i + 1) = 2

\* the same pair resolved three times: a failed fetch, a successful one, a hit
C7_Witness ==
    /\ Len(calls) = 3
    /\ SamePair(calls[1], calls[2])
    /\ SamePair(calls[2], calls[3])
    /\ calls[1].net = "fail"
    /\ calls[2].net = "ok"
    /\ ~calls[3].fetched

\* C8: every resolution that returns a bitmap, from the cache or not, returns
\* one whose height is the targetHeightPx of that call.
C8_HeightIsTarget ==
    \A k \in 1..Len(calls) :
        calls[k].emoji.kind = "bitmap" => calls[k].emoji.h = calls[k].size

\* C10: the resolution never raises; after a failed fetch the composer draws
\* the raw reference as text if it was not a URL and no emoji element if it
\* was a URL; slot number and team label are drawn in both cases.
C10_FailureFallback ==
    \A k \in 1..Len(calls) :
        /\ calls[k].slot
        /\ calls[k].team
        /\ calls[k].net = "fail" =>
              calls[k].emoji.kind =
                  IF StartsWith(calls[k].ref, Http) THEN "none" ELSE "text"

----------------------------------------------------------------------------
(* Claims about the animated path *)

\* C5: the output has as many frames as the source, frame i declares the
\* duration of source frame i in integer milliseconds (the default when the
\* source declares none), in the same order, and the output loops forever.
C5_TimingPreserved ==
    gifOut # NoOutput =>
        /\ Len(gifOut.durations) = Len(gifIn)
        /\ \A i \in 1..Len(gifIn) :
              gifOut.durations[i] =
                  IF gifIn[i] = 0 THEN DefaultDuration ELSE gifIn[i]
        /\ gifOut.loop = "forever"

----------------------------------------------------------------------------
(* Claims about the layout of a frame *)

\* the three elements of the last composition: height and twice the y
Elements ==
    {[name |-> "slot", h |-> placed.slot_h, y2 |-> placed.ySlot2],
     [name |-> "team", h |-> placed.main_h, y2 |-> placed.yMain2]}
    \cup (IF placed.emoji = "none" THEN {}
          ELSE {[name |-> "emoji", h |-> placed.emoji_h, y2 |-> placed.yEmoji2]})

\* C11: whenever paddingTop + paddingBottom < H, the vertical centre
\* y + h/2 of each element placed lies within
\* [paddingTop - h/2, (H - paddingBottom) + h/2], whatever the measured
\* heights (all quantities doubled to stay in the integers)
C11_BandInvariant ==
    (placed.by # "nobody" /\ placed.top + placed.pb < placed.H) =>
        \A e \in Elements :
            /\ 2 * placed.top - e.h <= e.y2 + e.h
            /\ e.y2 + e.h <= 2 * (placed.H - placed.pb) + e.h

\* C17: each element is centred by its own measured height, at
\* y = paddingTop + (bandHeight - h) div 2 with
\* bandHeight = max(1, max(0, H - paddingBottom) - paddingTop)
C17_CentredByOwnHeight ==
    placed.by # "nobody" =>
        LET bandHeight == Max(1, Max(0, placed.H - placed.pb) - placed.top)
        IN \A e \in Elements :
               e.y2 = 2 * (placed.top + (bandHeight - e.h) \div 2)

----------------------------------------------------------------------------
(* Claims about font resolution *)

\* the font the resolution order (a) fonts directory, (b) the name as a
\* path, (c) system fallback, (d) built-in font selects
FirstInOrder(family, world) ==
    IF family = "relative" /\ world.inFonts THEN "fonts_dir"
    ELSE IF family # "empty" /\ world.asPath THEN "path"
    ELSE IF world.fallback THEN "fallback"
    ELSE "builtin"

\* C13: font resolution returns a font for any family, the first that loads
\* in the order fonts directory, name as a path, system fallback, built-in
\* font (for an empty family the default file of the fonts directory counts
\* as the fallback family)
C13_FontResolutionOrder ==
    font.by # "nobody" =>
        \/ font.got = FirstInOrder(font.family, font.world)
        \/ font.family = "empty" /\ font.got = "fonts_dir_default"

----------------------------------------------------------------------------
(* Claims about generate_single and the preconditions of send_slots *)

Present(v) == ~Falsy(v)

\* the label of the claim: both, the one present, or the placeholder
LabelOf(teamname, teamtag) ==
    IF Present(teamname) /\ Present(teamtag) THEN teamname \o <<" ">> \o teamtag
    ELSE IF Present(teamname) THEN teamname
    ELSE IF Present(teamtag) THEN teamtag
    ELSE FreeSlot

\* C12: the team label drawn for a stored slot is "{name} {tag}" when both
\* are present, the one that is present when only one is, the placeholder
\* when neither is
C12_TeamLabel ==
    (req.op = "generate_single" /\ req.payload = "image") =>
        req.label = LabelOf(req.teamname, req.teamtag)

DefaultCanvas == <<1280, 120>>

\* C14: the output of generate_single has the pixel size of the input
\* background, and with no gif_name and no default background asset the
\* image is rendered on the 1280x120 default canvas instead of failing
C14_OutputSize ==
    req.op = "generate_single" =>
        /\ (req.bg /\ req.found) =>
               /\ req.payload = "image"
               /\ req.size = BgSize(IF req.gif = "" THEN DEFAULT_GIF_NAME ELSE req.gif)
        /\ (req.gif = "" /\ ~req.bg /\ req.found) =>
               /\ req.payload = "image"
               /\ req.size = DefaultCanvas

\* what every answered request shows
PreconditionAnswers ==
    /\ (req.op = "send_slots" /\ ~req.token) =>
           req.status = 500 /\ req.payload = "error"
    /\ (req.op = "send_slots" /\ req.token /\ (~req.bg \/ ~req.found)) =>
           req.status = 404 /\ req.payload = "error"
    /\ (req.op = "send_slots" /\ req.payload = "accepted") =>
           req.token /\ req.bg /\ req.found
    /\ (req.op = "generate_single" /\ (~req.bg \/ ~req.found)) =>
           req.status = 404 /\ req.payload = "error"
    /\ (req.op = "generate_single" /\ req.bg /\ req.found) =>
           req.status = 200 /\ req.payload = "image"
    /\ pc # "idle" => req.op = "send_slots" /\ req.payload = "accepted"

\* a step that answers a request with an error
AnswersError == req' # req /\ req'.payload = "error"

\* C15: send_slots without credential, background or slots answers 500, 404,
\* 404 and generate_single without background or slot answers 404 and no
\* image, with or without credential; the step that answers an error issues
\* no request and changes no slot record
C15_PreconditionFailures ==
    /\ []PreconditionAnswers
    /\ [][AnswersError => UNCHANGED <<db, remote, log, pc, sess>>]_vars

\* a send_slots request is rejected for its background after an earlier
\* invocation has created messages and stored their ids
C15_Witness ==
    /\ req.op = "send_slots" /\ req.status = 404 /\ req.token /\ ~req.bg
    /\ remote # {}
    /\ \E k \in 1..Len(db) : db[k].msg # NoMsg

----------------------------------------------------------------------------
(* Claims about the loop of send_slots *)

\* requests of the running invocation: ascending slot numbers, one per slot,
\* each issued after the one before it was answered and waited for; an
\* invocation that returns has issued one request per slot
LoopIsSequential ==
    /\ \A j, k \in 1..Len(log) : j < k => log[j].num < log[k].num
    /\ \A k \in 1..(Len(log) - 1) :
           /\ log[k].status \in {"ok", "r429", "fail"}
           /\ log[k].wait \in {"pacing", "retry_after"}
           /\ log[k].wait = "retry_after" <=> log[k].status = "r429"
    /\ result = "sent" => Len(log) = Len(db)

\* C16: send_slots handles the slots one after the other in ascending
\* slot_number order, the next request only after the previous one returned
\* and its wait elapsed, at most one request per slot, and the invocation
\* always ends, after the last slot or by raising
C16_SequentialLoop ==
    /\ []LoopIsSequential
    /\ (result = "running") ~> (result \in {"sent", "raised"})

\* an invocation went through both slots, the first answered 429
C16_Witness ==
    /\ result = "sent"
    /\ Len(log) = LastSlot - FirstSlot + 1
    /\ log[1].status = "r429" /\ log[1].wait = "retry_after"
    /\ log[2].wait = "pacing"

----------------------------------------------------------------------------
(* Claims about overlapping invocations *)

\* C18: when two send_slots invocations for the same guild and channel
\* overlap, at most one message is created per slot in that channel and the
\* stored message id of a slot refers to that message
C18_OneMessagePerSlot ==
    /\ \A m1, m2 \in remote :
           (m1.chan = m2.chan /\ m1.num = m2.num) => m1 = m2
    /\ \A k \in 1..Len(db) :
           db[k].msg # NoMsg =>
               [id |-> db[k].msg, chan |-> db[k].chan, num |-> db[k].num] \in remote

----------------------------------------------------------------------------
(* Claims about the slot records *)

\* C19: after any sequence of list_slots, update_slot and bulk_update_slots
\* calls there is at most one slot record per (guild, slot_number)
C19_OneRecordPerSlotNumber ==
    \A j, k \in 1..Len(db) : j # k => db[j].num # db[k].num

Ref(row) == <<row.msg, row.chan>>

\* a stored message id comes with a stored channel id
RefIsWhole == \A k \in 1..Len(db) : db[k].msg # NoMsg => db[k].chan # NoChan

\* rows are never removed, new rows carry no reference, and the reference of
\* a row changes only in the step that handles the successful create for
\* that row, which sets id and channel together
RefWrittenByCreateOnly ==
    /\ Len(db') >= Len(db)
    /\ \A k \in (Len(db) + 1)..Len(db') : Ref(db'[k]) = <<NoMsg, NoChan>>
    /\ \A k \in 1..Len(db) :
           Ref(db'[k]) # Ref(db[k]) =>
               /\ pc = "handle" /\ resp = "ok" /\ Last(log).kind = "POST"
               /\ k = SlotOrder[idx]
               /\ Ref(db'[k]) = <<Last(log).id, channel>>

\* the request issued for a row that has a reference for the target channel
\* is an edit
StoredRefIsEdited ==
    (pc = "issue" /\ pc' = "await") =>
        LET k == SlotOrder[idx]
        IN (db[k].msg # NoMsg /\ db[k].chan = channel) => Last(log').kind = "PATCH"

\* C20: the delivery reference is written only by a successful create of
\* send_slots, id and channel together; list_slots, update_slot,
\* bulk_update_slots and generate_single leave it unchanged; a stored id
\* always comes with a stored channel; an edited slot is still edited in
\* place by the next send to the same channel
C20_RefWrittenOnlyByCreate ==
    /\ []RefIsWhole
    /\ [][RefWrittenByCreateOnly /\ StoredRefIsEdited]_vars

\* an invocation has loaded an edited row that stores a reference for the
\* target channel and has issued an edit for it
C20_Witness ==
    /\ pc = "handle"
    /\ \E k \in 1..Len(sess) :
           /\ sess[k].text = "A" /\ sess[k].msg # NoMsg /\ sess[k].chan = channel
           /\ k = SlotOrder[idx]
           /\ Last(log).kind = "PATCH" /\ Last(log).num = sess[k].num
           /\ db[k].text = "A" /\ Ref(db[k]) = Ref(sess[k])

----------------------------------------------------------------------------
(* Claims about the stability of a stored message id *)

\* every edit of the running invocation was aimed at the id its row stored
\* for the target channel, and the row still stores that id for that channel,
\* whatever the edit was answered
EditKeepsStoredId ==
    \A j \in 1..Len(log) :
        log[j].kind = "PATCH" =>
            /\ log[j].hadMsg # NoMsg /\ log[j].hadChan = channel
            /\ log[j].target = log[j].hadMsg
            /\ \A k \in RowsOf(log[j].num) :
                   db[k].msg = log[j].target /\ db[k].chan = channel

\* for a row that stores an id: the request issued for it by an invocation
\* targeting the stored channel is an edit, and its reference changes only in
\* the step that handles a successful create for another channel
StoredIdStep ==
    \A k \in 1..Len(db) :
        db[k].msg # NoMsg =>
            /\ (pc = "issue" /\ pc' = "await" /\ k = SlotOrder[idx]
                    /\ db[k].chan = channel) =>
                   Last(log').kind = "PATCH"
            /\ Ref(db'[k]) # Ref(db[k]) =>
                   /\ channel # db[k].chan
                   /\ pc = "handle" /\ resp = "ok" /\ Last(log).kind = "POST"
                   /\ k = SlotOrder[idx]
                   /\ Ref(db'[k]) = <<Last(log).id, channel>>

\* C21: once a slot stores a message id for channel C, no later send_slots
\* call targeting C issues a create for it or changes or clears the stored
\* id, whatever the edit is answered (success, 429, failure); the reference
\* is replaced only by a successful create of a call targeting another
\* channel
C21_StoredIdStable ==
    /\ []EditKeepsStoredId
    /\ [][StoredIdStep]_vars

\* an edit was answered with a failure and handled, and the row still stores
\* the id the edit was aimed at
C21_Witness ==
    \E j \in 1..Len(log) :
        /\ log[j].kind = "PATCH" /\ log[j].status = "fail" /\ log[j].wait = "pacing"
        /\ \E k \in RowsOf(log[j].num) :
               db[k].msg = log[j].target /\ db[k].chan = channel

====
